---- MODULE Spec2Model ----
(***************************************************************************)
(* The daily reflection session of FounderReflect                         *)
(* (src/src/components/DailyReflection.tsx), as rendered by App           *)
(* (src/unnamed/part_000): the component's React state, the record kept   *)
(* in localStorage under reflection_<user>_<date>, the wall clock, and    *)
(* the sendMessage handlers that are suspended on a Language Generator    *)
(* call.  One user and one calendar date are modelled: every key the      *)
(* component touches is the key of that pair.                             *)
(*                                                                         *)
(* Time is counted in whole minutes (Date.now() / 60000).  A message is   *)
(* its role and its content; ids and timestamps are not modelled.  The    *)
(* text the language model writes is the single token "generated".        *)
(***************************************************************************)
EXTENDS Integers, Sequences, FiniteSets, Bags, TLC

VARIABLES
  messages,       \* useState<Message[]>            DailyReflection.tsx:38
  input,          \* useState('') the textarea      DailyReflection.tsx:39
  isLoading,      \* useState(false)                DailyReflection.tsx:40
  hasStarted,     \* useState(false)                DailyReflection.tsx:42
  sessionState,   \* useState<SessionState>         DailyReflection.tsx:43
  currentPage,    \* App's useState('reflection')   part_000:15
  store,          \* localStorage item reflection_<user>_<date>
  clock,          \* Date.now(), in minutes
  turn,           \* the mounted component's sendMessage call, suspended
                  \* at an await (NoTurn when there is none)
  orphans,        \* bag of the suspended sendMessage calls of components
                  \* that have been unmounted since
  turnsAccepted,  \* history: turns accepted since startReflection ran in
                  \* the mounted component (NotCounted when it did not)
  turnsAnswered,  \* history: sendMessage calls of today's session that
                  \* have reached saveReflection, counted up to one more
                  \* than maxQuestions
  writeFailures,  \* history: calls of localStorage.setItem that threw
  user,               \* App's useState(null)              part_000:13
  loading,            \* App's useState(true)              part_000:14
  viewingReflection,  \* App's useState<string | null>     part_000:16
  viewingSummary,     \* App's useState<string | null>     part_000:17
  profileCompleted,   \* App's useState(false)             part_000:18
  profileEffect,      \* "pending" from a render with a new user until
                      \* the effect of part_000:29-50 has run
  profiles,           \* localStorage items founder_profile_<user>
  profile,            \* ProfileSetup's useState<FounderProfile>
  goalInput,          \* ProfileSetup's useState('')       ProfileSetup.tsx:37
  summaries,          \* WeeklySummaries' useState([])     part_001:27
  isGenerating,       \* WeeklySummaries' useState(false)  part_001:28
  summaryStore,       \* localStorage item weekly_summaries_<user>
  generation,         \* the mounted WeeklySummaries' generateWeeklySummary
                      \* call, suspended at generateText
  generationOrphans,  \* bag of such calls of unmounted components
  today,              \* the calendar day of new Date(), as a day number
  timeOfDay,          \* the half-days of new Date() since midnight
  archive,            \* localStorage items reflection_<user>_<date> of the
                      \* dates other than today
  streak              \* Dashboard's useState(0)           Dashboard.tsx:22

\* the daily reflection session and its storage
sessionVars == <<messages, input, isLoading, hasStarted, sessionState,
                 store, clock, turn, orphans, turnsAccepted, turnsAnswered>>

\* App's state
appVars == <<user, loading, viewingReflection, viewingSummary,
             profileCompleted, profileEffect>>

\* ProfileSetup's state and storage
profileVars == <<profiles, profile, goalInput>>

\* WeeklySummaries' state and storage
summaryVars == <<summaries, isGenerating, summaryStore, generation,
                 generationOrphans>>

\* the calendar, the records of other days and the Dashboard's state
calendarVars == <<today, timeOfDay, archive, streak>>

\* what no handler of DailyReflection reads or writes
shellVars == <<appVars, profileVars, summaryVars, calendarVars>>

vars == <<messages, input, isLoading, hasStarted, sessionState, currentPage,
          store, clock, turn, orphans, turnsAccepted,
          turnsAnswered, writeFailures, shellVars>>

----------------------------------------------------------------------------
(* Bounds of the model *)

\* first value of the clock: any instant later than 20 minutes after epoch 0
InitialClock == 50
\* last value of the clock
MaxClock == 70
\* suspended sendMessage calls that may outlive the component that started
\* them (the user leaves the page while a turn awaits the generator)
MaxOrphans == 1
\* calls of localStorage.setItem that may throw in one run
MaxWriteFailures == 1

(* Program constants *)

\* maxQuestions: 5
MaxQuestions == 5
\* elapsedMinutes >= 20
SessionMinutes == 20
\* messages.length < 2
MinAnalysisMessages == 2

\* minutes that pass in one step of the clock: half the session's limit
TickMinutes == SessionMinutes \div 2

NotCounted == 0 - 1

\* what the user may have typed: nothing, whitespace only, padded text
Inputs == { <<>>, <<" ">>, <<" ", "a", " ">> }

\* the reflection page, and a page that renders another component
Pages == {"reflection", "dashboard"}

\* outcomes of one call of the Language Generator
CallOutcomes == {"ok", "error"}

\* outcomes of localStorage.setItem: in Spec the store accepts every write
WriteOutcomes == {TRUE}

\* outcomes of localStorage.setItem when it may throw (quota, serialization)
StorageOutcomes == {TRUE, FALSE}

----------------------------------------------------------------------------
(* Pure functions *)

\* a trim that trims nothing
TrimNothing(s) == s

RECURSIVE TrimStart(_)
TrimStart(s) ==
  IF s # <<>> /\ Head(s) = " " THEN TrimStart(Tail(s)) ELSE s

RECURSIVE TrimEnd(_)
TrimEnd(s) ==
  IF s # <<>> /\ s[Len(s)] = " " THEN TrimEnd(SubSeq(s, 1, Len(s) - 1)) ELSE s

\* String.prototype.trim
Trim(s) == TrimEnd(TrimStart(s))

Message(role, content) == [role |-> role, content |-> content]

\* an opening message attributed to the user
WelcomeMessageFromUser == Message("user", "welcome")

WelcomeMessage == Message("assistant", "welcome")

ClosingText == "closing"
GeneratedText == "generated"
ActionTemplate == "one specific action tomorrow"
ChallengeTemplate == "specific challenge move forward"

\* the state useState starts with
DefaultSessionState ==
  [ startTime |-> 0, questionCount |-> 0, maxQuestions |-> MaxQuestions,
    isComplete |-> FALSE, topics |-> <<>>, topicCoverage |-> <<>>,
    currentFocus |-> "null" ]

\* a start that keeps the state useState started with
NewSessionStateStale(now) == DefaultSessionState

\* startReflection's newSessionState
NewSessionState(now) ==
  [ startTime |-> now, questionCount |-> 0, maxQuestions |-> MaxQuestions,
    isComplete |-> FALSE, topics |-> <<>>, topicCoverage |-> <<>>,
    currentFocus |-> "null" ]

\* the question ceiling compared with > instead of >=
shouldEndSessionLateCount(currentSession, elapsedMinutes) ==
  \/ currentSession.questionCount > currentSession.maxQuestions
  \/ elapsedMinutes >= SessionMinutes
  \/ currentSession.isComplete

\* the time limit compared with > instead of >=
shouldEndSessionLateLimit(currentSession, elapsedMinutes) ==
  \/ currentSession.questionCount >= currentSession.maxQuestions
  \/ elapsedMinutes > SessionMinutes
  \/ currentSession.isComplete

shouldEndSession(currentSession, elapsedMinutes) ==
  \/ currentSession.questionCount >= currentSession.maxQuestions
  \/ elapsedMinutes >= SessionMinutes
  \/ currentSession.isComplete

\* (Date.now() - currentSession.startTime) / (1000 * 60)
ElapsedMinutes(now, currentSession) == now - currentSession.startTime

QuestionsRemaining(currentSession) ==
  currentSession.maxQuestions - currentSession.questionCount

\* the last-question template chosen only when no question remains
FallbackQuestionLate(questionsRemaining) ==
  IF questionsRemaining < 1 THEN ActionTemplate ELSE ChallengeTemplate

\* the catch branch of generateContextualQuestion
FallbackQuestion(questionsRemaining) ==
  IF questionsRemaining <= 1 THEN ActionTemplate ELSE ChallengeTemplate

\* a value returned by an awaited call, or the error it threw
Returned(v) == [thrown |-> FALSE, value |-> v]
Thrown == [thrown |-> TRUE, value |-> "error"]

\* analyzeConversationContext's result when messages.length < 2
NeutralAnalysis ==
  [ topics |-> <<>>, currentTopicSpecificity |-> 0,
    shouldMoveToNewTopic |-> FALSE, suggestedNextTopic |-> "null" ]

\* analyzeConversationContext's result when generateObject throws
DefaultAnalysis ==
  [ topics |-> <<>>, currentTopicSpecificity |-> 1,
    shouldMoveToNewTopic |-> FALSE, suggestedNextTopic |-> "null" ]

\* an object of the requested schema, as generateObject returns it
GeneratedAnalysis ==
  [ topics |-> <<"daily_progress">>, currentTopicSpecificity |-> 3,
    shouldMoveToNewTopic |-> TRUE, suggestedNextTopic |-> "immediate_plans" ]

\* analyzeConversationContext without its try/catch
analyzeConversationContextUncaught(outcome) ==
  IF outcome = "ok" THEN Returned(GeneratedAnalysis) ELSE Thrown

\* a catch block that returns the same object as the short-transcript return
analyzeConversationContextNeutral(outcome) ==
  IF outcome = "ok" THEN Returned(GeneratedAnalysis)
                    ELSE Returned(NeutralAnalysis)

\* analyzeConversationContext once generateObject has ended with `outcome`
analyzeConversationContext(outcome) ==
  IF outcome = "ok" THEN Returned(GeneratedAnalysis)
                    ELSE Returned(DefaultAnalysis)

\* the CRITICAL INSTRUCTIONS line of the prompt built from `analysis`
CriticalInstruction(analysis) ==
  IF analysis.shouldMoveToNewTopic THEN "MOVE TO NEW TOPIC"
                                   ELSE "CONTINUE CURRENT TOPIC"

\* the try/catch around generateText once the call has ended with `outcome`
generateQuestionText(outcome, currentSession) ==
  IF outcome = "ok"
    THEN Returned(GeneratedText)
    ELSE Returned(FallbackQuestion(QuestionsRemaining(currentSession)))

\* a turn that also records the topic it is about
UpdatedSessionStateFocused(current) ==
  [current EXCEPT !.questionCount = @ + 1, !.currentFocus = "daily_progress"]

\* a turn that forgets to count itself
UpdatedSessionStateUncounted(current) == current

\* sendMessage's updatedSessionState
UpdatedSessionState(current) ==
  [current EXCEPT !.questionCount = @ + 1]

\* sendMessage's finalSessionState, computed at `now`
FinalSessionState(updated, now) ==
  [updated EXCEPT
     !.isComplete = shouldEndSession(updated, ElapsedMinutes(now, updated))]

----------------------------------------------------------------------------
(* The persisted record *)

\* localStorage.getItem returned null
NoRecord == [kind |-> "null"]

\* an item that JSON.parse rejects
CorruptRecord == [kind |-> "text"]

\* a record built from the transcript as it was before its last message
ReflectionDataUnanswered(newMessages, newSessionState) ==
  [kind |-> "json",
   messages |-> SubSeq(newMessages, 1, Len(newMessages) - 1),
   sessionState |-> newSessionState]

\* JSON.stringify(reflectionData): date and userId are the key's, updatedAt
\* is read by nobody
ReflectionData(newMessages, newSessionState) ==
  [kind |-> "json", messages |-> newMessages, sessionState |-> newSessionState]

\* localStorage.setItem returns (`accepted`) or throws
setItem(accepted) ==
  /\ accepted \/ writeFailures < MaxWriteFailures
  /\ writeFailures' = IF accepted THEN writeFailures ELSE writeFailures + 1

\* the item after saveReflection: setItem replaced it, or threw and the
\* error was caught
saveReflection(newMessages, newSessionState, accepted) ==
  IF accepted THEN ReflectionData(newMessages, newSessionState) ELSE store

\* a loadTodaysReflection that takes any stored record for a started session
loadTodaysReflectionAlwaysStarted(item) ==
  IF item.kind = "json"
    THEN [ messages |-> IF "messages" \in DOMAIN item THEN item.messages
                        ELSE <<>>,
           hasStarted |-> TRUE,
           sessionState |-> IF "sessionState" \in DOMAIN item
                              THEN item.sessionState
                              ELSE DefaultSessionState ]
    ELSE [ messages |-> <<>>, hasStarted |-> FALSE,
           sessionState |-> DefaultSessionState ]

\* what loadTodaysReflection sets, starting from the freshly mounted state:
\* data.messages || [], data.messages?.length > 0, and data.sessionState
\* if the record has one
loadTodaysReflection(item) ==
  IF item.kind = "json"
    THEN [ messages |-> IF "messages" \in DOMAIN item THEN item.messages
                        ELSE <<>>,
           hasStarted |-> IF "messages" \in DOMAIN item
                            THEN Len(item.messages) > 0
                            ELSE FALSE,
           sessionState |-> IF "sessionState" \in DOMAIN item
                              THEN item.sessionState
                              ELSE DefaultSessionState ]
    ELSE [ messages |-> <<>>, hasStarted |-> FALSE,
           sessionState |-> DefaultSessionState ]

\* records another version of the application, or another tab, may have
\* left under today's key: none, one that is not JSON, one without
\* messages, one with an empty transcript, one without a session state,
\* and a session in progress
StoredItems ==
  { NoRecord,
    CorruptRecord,
    [kind |-> "json", sessionState |-> NewSessionState(InitialClock)],
    [kind |-> "json", messages |-> <<>>,
     sessionState |-> NewSessionState(InitialClock)],
    [kind |-> "json", messages |-> <<>>],
    [kind |-> "json", messages |-> <<WelcomeMessage>>],
    ReflectionData(<<WelcomeMessage>>, NewSessionState(InitialClock)) }

----------------------------------------------------------------------------
(* Suspended sendMessage calls *)

NoTurn == [pc |-> "idle"]

\* a sendMessage call suspended at `pc` ("analyze": awaiting generateObject,
\* "generate": awaiting generateText) with the values its closure holds
Turn(pc, updatedMessages, updatedSessionState, analysis) ==
  [ pc |-> pc, messages |-> updatedMessages, session |-> updatedSessionState,
    analysis |-> analysis ]

\* an analysis skipped for every transcript of up to two messages
FirstCallSkipsFirstTurn(conversationHistory) ==
  IF Len(conversationHistory) <= MinAnalysisMessages THEN "generate"
  ELSE "analyze"

\* the call generateContextualQuestion suspends at first: generateObject,
\* unless analyzeConversationContext returns at once (messages.length < 2)
FirstCall(conversationHistory) ==
  IF Len(conversationHistory) < MinAnalysisMessages THEN "generate"
  ELSE "analyze"

\* the component is unmounted while `call` is suspended: the call runs on,
\* and its setState calls no longer reach any state
Orphaned(call) ==
  IF call.pc = "idle" THEN orphans ELSE orphans (+) SetToBag({call})

\* the call `o` of an unmounted component has moved on to `next`
Resumed(o, next) ==
  IF next.pc = "idle" THEN orphans (-) SetToBag({o})
  ELSE (orphans (-) SetToBag({o})) (+) SetToBag({next})

Mounted == currentPage = "reflection"

----------------------------------------------------------------------------
(* The application shell: App (part_000) and ProfileSetup *)

\* state.user of blink.auth when nobody is signed in
NoUser == "null"

\* the ids of the users who sign in on this browser
Users == {"u1", "u2"}

\* viewingReflection and viewingSummary when nothing is viewed
NoView == "null"

\* the date of a stored reflection, the id of a stored summary
ViewDates == {"date"}

SummaryIds == {"id"}

\* the pages of Navigation
AppPages == {"reflection", "dashboard", "summaries", "profile"}

\* what the user may type into companyName and industry
Names == { <<>>, <<" ">>, <<"a">> }

\* what the user may type into the goal input
GoalInputs == { <<>>, <<" ">>, <<"g", " ">> }

\* the values of the stage Select
Stages == {"pre-seed", "seed"}

\* the profile useState starts with: currentChallenges, reflectionStreak
\* and lastReflectionDate are read by no check and are left out
DefaultProfile ==
  [ companyName |-> <<>>, industry |-> <<>>, stage |-> "pre-seed",
    goals |-> <<>> ]

\* a profile that passes every check of saveProfile
CompleteProfile ==
  [ companyName |-> <<"a">>, industry |-> <<"a">>, stage |-> "pre-seed",
    goals |-> << <<"g">> >> ]

\* JSON.stringify(profileData)
ProfileData(p) ==
  [ kind |-> "json", companyName |-> p.companyName, industry |-> p.industry,
    stage |-> p.stage, goals |-> p.goals ]

\* loadProfile: setProfile(JSON.parse(savedProfile)) if there is an item
\* and it parses
loadProfile(item, current) ==
  IF item.kind = "json"
    THEN [ companyName |-> item.companyName, industry |-> item.industry,
           stage |-> item.stage, goals |-> item.goals ]
    ELSE current

\* the check of App's effect: every required field of the stored profile
\* is truthy and goals is not empty
isCompleted(item) ==
  /\ item.kind = "json"
  /\ item.companyName # <<>>
  /\ item.industry # <<>>
  /\ item.stage # ""
  /\ Len(item.goals) > 0

\* what App returns: the spinner, the login screen, the profile gate, a
\* viewer, or the page Navigation has selected
View(u, l, completed, reflection, summary, page) ==
  IF l THEN "loading"
  ELSE IF u = NoUser THEN "login"
  ELSE IF ~completed THEN "profile-setup"
  ELSE IF reflection # NoView THEN "reflection-viewer"
  ELSE IF summary # NoView THEN "summary-viewer"
  ELSE page

Displayed ==
  View(user, loading, profileCompleted, viewingReflection, viewingSummary,
       currentPage)

\* Navigation and <main> are rendered
MainApplication == Displayed \notin {"loading", "login", "profile-setup"}

\* where ProfileSetup is mounted: in the gate (with onProfileComplete), as
\* the profile page (without), or nowhere
ProfileSlot(view) ==
  IF view = "profile-setup" THEN "gate"
  ELSE IF view = "profile" THEN "page"
  ELSE "none"

\* first day of the model's calendar: day 0 is a Sunday, so this is the
\* Saturday of the second week
FirstDay == 13

\* last day of the model's calendar
MaxDay == 15

----------------------------------------------------------------------------
(* Weekly summaries (part_001) *)

\* date.getDay(): 0 on Sunday
DayOfWeek(day) == day % 7

\* weekStart of generateWeeklySummary: today.getDate() - today.getDay()
WeekStart(day) == day - DayOfWeek(day)

\* weekEnd: weekStart.getDate() + 6
DaysToWeekEnd == 6

WeekEnd(day) == WeekStart(day) + DaysToWeekEnd

\* a Date as half-days since day 0; setDate keeps the time of day
HalfDaysPerDay == 2

Instant(day, halfDays) == day * HalfDaysPerDay + halfDays

\* new Date(data.date): midnight of the date
Midnight(day) == Instant(day, 0)

\* the item reflection_<user>_<date> of a date other than today, reduced
\* to its date and the length of its messages
Record(date, length) == [date |-> date, messages |-> length]

\* the dates of the stored reflections that have at least one message:
\* those of the other days, and today's
ReflectionDates ==
  {r.date : r \in {x \in archive : x.messages > 0}}
    \cup (IF store.kind = "json" /\ "messages" \in DOMAIN store
                /\ Len(store.messages) > 0
            THEN {today} ELSE {})

----------------------------------------------------------------------------
(* Dashboard *)

\* for (let i = 0; i < 30; i++)
StreakDays == 30

\* the loop of calculateStreak from its i-th round on
RECURSIVE CountStreak(_, _, _, _, _)
CountStreak(dates, day, i, limit, currentStreak) ==
  IF i < limit /\ (day - i) \in dates
    THEN CountStreak(dates, day, i + 1, limit, currentStreak + 1)
    ELSE currentStreak

\* a streak that is counted as far as the reflections go
calculateStreakUncapped(dates, day) ==
  IF dates = {} THEN 0
  ELSE IF day \notin dates THEN 0
  ELSE CountStreak(dates, day, 0, Cardinality(dates) + 1, 0)

\* calculateStreak(allReflections) on the day `day`: what setStreak gets
calculateStreak(dates, day) ==
  IF dates = {} THEN 0
  ELSE IF day \notin dates THEN 0
  ELSE CountStreak(dates, day, 0, StreakDays, 0)

\* Dashboard after a step of App: when the step mounts it, its effect runs
\* loadDashboardData on the stored reflections; unmounted, its state is
\* useState's
DashboardFollows ==
  LET before == Displayed = "dashboard"
      after == View(user', loading', profileCompleted', viewingReflection',
                    viewingSummary', currentPage') = "dashboard"
  IN streak' = IF after /\ ~before
                 THEN calculateStreak(ReflectionDates, today)
               ELSE IF after THEN streak
               ELSE 0

\* the reflections of the last seven days instead of those of the week
getWeekReflectionsOfLastDays(day, halfDays) ==
  {d \in ReflectionDates :
     /\ Midnight(d) >= Instant(day - DaysToWeekEnd - 1, halfDays)
     /\ Midnight(d) <= Instant(day, halfDays)}

\* getWeekReflections(weekStart, weekEnd), for the week of the instant
\* (day, halfDays): reflectionDate >= weekStart && reflectionDate <= weekEnd
getWeekReflections(day, halfDays) ==
  {d \in ReflectionDates :
     /\ Midnight(d) >= Instant(WeekStart(day), halfDays)
     /\ Midnight(d) <= Instant(WeekEnd(day), halfDays)}

\* newSummary: the generated text is not parsed, the lists are fixed
WeeklySummary(weekStartDate, weekEndDate) ==
  [ weekStartDate |-> weekStartDate, weekEndDate |-> weekEndDate,
    summaryText |-> GeneratedText ]

\* JSON.stringify(newSummaries)
SummariesData(newSummaries) == [kind |-> "json", summaries |-> newSummaries]

\* loadWeeklySummaries: setSummaries(JSON.parse(savedSummaries)) if there
\* is an item and it parses
loadWeeklySummaries(item, current) ==
  IF item.kind = "json" THEN item.summaries ELSE current

\* summaries.find(s => s.weekStartDate === ...)
existingSummary(list, weekStartDate) ==
  \E i \in 1..Len(list) : list[i].weekStartDate = weekStartDate

\* a generateWeeklySummary call suspended at generateText, with the values
\* its closure holds
Generation(list, weekStartDate, weekEndDate, weekReflections) ==
  [ pc |-> "generate", summaries |-> list, weekStartDate |-> weekStartDate,
    weekEndDate |-> weekEndDate, weekReflections |-> weekReflections ]

\* the bag of calls of unmounted components once `call` has joined it
OrphanedGeneration(call) ==
  IF call.pc = "idle" THEN generationOrphans
  ELSE generationOrphans (+) SetToBag({call})

\* WeeklySummaries after a step of App: when the step mounts it, it starts
\* from useState's values and its effect loads the stored summaries; when
\* the step unmounts it, a suspended call runs on without it
WeeklySummariesFollows ==
  LET before == Displayed = "summaries"
      after == View(user', loading', profileCompleted', viewingReflection',
                    viewingSummary', currentPage') = "summaries"
  IN IF before = after
       THEN UNCHANGED summaryVars
       ELSE /\ BagCardinality(OrphanedGeneration(generation)) <= MaxOrphans
            /\ summaries' = IF after
                              THEN loadWeeklySummaries(summaryStore, <<>>)
                              ELSE <<>>
            /\ isGenerating' = FALSE
            /\ generation' = NoTurn
            /\ generationOrphans' = OrphanedGeneration(generation)
            /\ UNCHANGED summaryStore

\* the shell around a reflection session: a user with a complete profile
\* is signed in, nothing else is stored
InitShell ==
  /\ user = "u1"
  /\ loading = FALSE
  /\ viewingReflection = NoView
  /\ viewingSummary = NoView
  /\ profileCompleted = TRUE
  /\ profileEffect = "done"
  /\ profiles = [u \in Users |-> IF u = "u1" THEN ProfileData(CompleteProfile)
                                 ELSE NoRecord]
  /\ profile = DefaultProfile
  /\ goalInput = <<>>
  /\ summaries = <<>>
  /\ isGenerating = FALSE
  /\ summaryStore = NoRecord
  /\ generation = NoTurn
  /\ generationOrphans = EmptyBag
  /\ today = FirstDay
  /\ timeOfDay = 0
  /\ archive = {}
  /\ streak = 0

----------------------------------------------------------------------------
(* Initial state: the application opens on the reflection page, nothing is
   stored for today, and the mount effect has run *)

Init ==
  /\ messages = <<>>
  /\ input = <<>>
  /\ isLoading = FALSE
  /\ hasStarted = FALSE
  /\ sessionState = DefaultSessionState
  /\ currentPage = "reflection"
  /\ store = NoRecord
  /\ clock = InitialClock
  /\ turn = NoTurn
  /\ orphans = EmptyBag
  /\ turnsAccepted = NotCounted
  /\ turnsAnswered = 0
  /\ writeFailures = 0
  /\ InitShell

----------------------------------------------------------------------------
(* Actions *)

\* time passes.  No code reads the clock before startReflection has run
\* for today, so the minutes before that are those of InitialClock
Tick ==
  /\ UNCHANGED shellVars
  /\ store # NoRecord \/ hasStarted \/ orphans # EmptyBag
  /\ clock + TickMinutes <= MaxClock
  /\ clock' = clock + TickMinutes
  /\ UNCHANGED <<messages, input, isLoading, hasStarted, sessionState,
                 currentPage, store, turn, orphans, turnsAccepted,
                 turnsAnswered, writeFailures>>

\* onChange of the textarea: setInput(e.target.value).  The textarea is
\* rendered when hasStarted and !isComplete, and disabled while isLoading
SetInput(text) ==
  /\ UNCHANGED shellVars
  /\ Mounted /\ hasStarted /\ ~isLoading /\ ~sessionState.isComplete
  /\ text # input
  /\ input' = text
  /\ UNCHANGED <<messages, isLoading, hasStarted, sessionState, currentPage,
                 store, clock, turn, orphans, turnsAccepted,
                 turnsAnswered, writeFailures>>

\* the button shown while !hasStarted
startReflection(accepted) ==
  /\ UNCHANGED shellVars
  /\ Mounted /\ ~hasStarted
  /\ LET newSessionState == NewSessionState(clock)
         newMessages == <<WelcomeMessage>>
     IN /\ hasStarted' = TRUE
        /\ sessionState' = newSessionState
        /\ messages' = newMessages
        /\ store' = saveReflection(newMessages, newSessionState, accepted)
  /\ isLoading' = FALSE
  /\ turnsAccepted' = 0
  /\ turnsAnswered' = 0
  /\ setItem(accepted)
  /\ UNCHANGED <<input, currentPage, clock, turn, orphans>>

\* a turn that shows its result only once the record is saved
CompleteTurnSavedFirst(updatedMessages, updatedSessionState, aiResponse, live, accepted) ==
  LET assistantMessage == Message("assistant", aiResponse)
      finalMessages == Append(updatedMessages, assistantMessage)
      finalSessionState == FinalSessionState(updatedSessionState, clock)
  IN /\ IF live
          THEN /\ messages' = IF accepted THEN finalMessages ELSE messages
               /\ sessionState' =
                    IF accepted THEN finalSessionState ELSE sessionState
               /\ isLoading' = FALSE
          ELSE UNCHANGED <<messages, sessionState, isLoading>>
     /\ store' = saveReflection(finalMessages, finalSessionState, accepted)
     /\ turnsAnswered' =
          IF turnsAnswered < MaxQuestions + 1 THEN turnsAnswered + 1
          ELSE turnsAnswered
     /\ setItem(accepted)

\* the end of a turn: lines 322-340 and the finally block
CompleteTurn(updatedMessages, updatedSessionState, aiResponse, live, accepted) ==
  LET assistantMessage == Message("assistant", aiResponse)
      finalMessages == Append(updatedMessages, assistantMessage)
      finalSessionState == FinalSessionState(updatedSessionState, clock)
  IN /\ IF live
          THEN /\ messages' = finalMessages
               /\ sessionState' = finalSessionState
               /\ isLoading' = FALSE
          ELSE UNCHANGED <<messages, sessionState, isLoading>>
     /\ store' = saveReflection(finalMessages, finalSessionState, accepted)
     /\ turnsAnswered' =
          IF turnsAnswered < MaxQuestions + 1 THEN turnsAnswered + 1
          ELSE turnsAnswered
     /\ setItem(accepted)

\* sendMessage's catch and finally blocks
FailTurn(live) ==
  /\ IF live THEN isLoading' = FALSE ELSE UNCHANGED isLoading
  /\ UNCHANGED <<messages, sessionState, store, turnsAnswered, writeFailures>>

\* the send button or Enter: sendMessage up to its first suspension
sendMessage(accepted) ==
  /\ UNCHANGED shellVars
  /\ Mounted /\ hasStarted
  /\ IF Trim(input) = <<>> \/ isLoading \/ sessionState.isComplete
       THEN UNCHANGED vars
       ELSE
         LET userMessage == Message("user", Trim(input))
             updatedMessages == Append(messages, userMessage)
             updatedSessionState == UpdatedSessionState(sessionState)
             elapsedMinutes == ElapsedMinutes(clock, updatedSessionState)
         IN /\ input' = <<>>
            /\ turnsAccepted' =
                 IF turnsAccepted = NotCounted THEN NotCounted
                 ELSE turnsAccepted + 1
            /\ UNCHANGED <<hasStarted, currentPage, clock, orphans>>
            /\ IF shouldEndSession(updatedSessionState, elapsedMinutes)
                 THEN \* the closing message is returned without any call
                   /\ CompleteTurn(updatedMessages, updatedSessionState,
                                   ClosingText, TRUE, accepted)
                   /\ UNCHANGED turn
                 ELSE
                   /\ messages' = updatedMessages
                   /\ isLoading' = TRUE
                   /\ turn' = Turn(FirstCall(updatedMessages), updatedMessages,
                                   updatedSessionState, NeutralAnalysis)
                   /\ UNCHANGED <<sessionState, store, turnsAnswered,
                                  writeFailures>>

\* blink.ai.generateObject of a call has ended with `analysis`: the call
\* goes on in generateContextualQuestion, or ends in sendMessage's catch
\* and finally blocks if the analysis threw
AfterAnalysis(analysis, live) ==
  IF analysis.thrown
    THEN FailTurn(live)
    ELSE UNCHANGED <<messages, sessionState, isLoading, store,
                     turnsAnswered, writeFailures>>

\* the call that goes on to generateQuestion with `analysis`, if any
Analysed(call, analysis) ==
  IF analysis.thrown THEN NoTurn
  ELSE [call EXCEPT !.pc = "generate", !.analysis = analysis.value]

\* blink.ai.generateText of `call` has ended with `outcome`
AfterQuestion(call, outcome, live, accepted) ==
  LET text == generateQuestionText(outcome, call.session)
  IN IF text.thrown
       THEN FailTurn(live)
       ELSE CompleteTurn(call.messages, call.session, text.value,
                         live, accepted)

\* the analysis call of the mounted component's turn returns
AnalysisReturns(outcome) ==
  /\ UNCHANGED shellVars
  /\ turn.pc = "analyze"
  /\ LET analysis == analyzeConversationContext(outcome)
     IN /\ AfterAnalysis(analysis, TRUE)
        /\ turn' = Analysed(turn, analysis)
  /\ UNCHANGED <<input, hasStarted, currentPage, clock, orphans,
                 turnsAccepted>>

\* the question call of the mounted component's turn returns
QuestionReturns(outcome, accepted) ==
  /\ UNCHANGED shellVars
  /\ turn.pc = "generate"
  /\ AfterQuestion(turn, outcome, TRUE, accepted)
  /\ turn' = NoTurn
  /\ UNCHANGED <<input, hasStarted, currentPage, clock, orphans,
                 turnsAccepted>>

\* the analysis call of an unmounted component's turn returns
OrphanAnalysisReturns(o, outcome) ==
  /\ UNCHANGED shellVars
  /\ BagIn(o, orphans) /\ o.pc = "analyze"
  /\ LET analysis == analyzeConversationContext(outcome)
     IN /\ AfterAnalysis(analysis, FALSE)
        /\ orphans' = Resumed(o, Analysed(o, analysis))
  /\ UNCHANGED <<input, hasStarted, currentPage, clock, turn, turnsAccepted>>

\* the question call of an unmounted component's turn returns
OrphanQuestionReturns(o, outcome, accepted) ==
  /\ UNCHANGED shellVars
  /\ BagIn(o, orphans) /\ o.pc = "generate"
  /\ AfterQuestion(o, outcome, FALSE, accepted)
  /\ orphans' = Resumed(o, NoTurn)
  /\ UNCHANGED <<input, hasStarted, currentPage, clock, turn, turnsAccepted>>

\* ProfileSetup after a step of App that leaves it with the form `form` and
\* the goal input `typed`: a ProfileSetup that is mounted by the step starts
\* from useState's values and its effect loads the stored profile; one that
\* stays mounted loads again when the user changes
ProfileSetupFollows(form, typed) ==
  LET before == ProfileSlot(Displayed)
      after == ProfileSlot(View(user', loading', profileCompleted',
                                viewingReflection', viewingSummary',
                                currentPage'))
  IN /\ profile' =
          IF after = "none" THEN DefaultProfile
          ELSE IF after # before
            THEN loadProfile(profiles'[user'], DefaultProfile)
          ELSE IF user' # user THEN loadProfile(profiles'[user'], form)
          ELSE form
     /\ goalInput' = IF after = "none" \/ after # before THEN <<>> ELSE typed

\* Navigation's onPageChange: renderCurrentPage mounts DailyReflection on
\* 'reflection' and unmounts it on every other page
onPageChange(page) ==
  /\ MainApplication /\ profileEffect = "done"
  /\ page # currentPage
  /\ BagCardinality(Orphaned(turn)) <= MaxOrphans
  /\ currentPage' = page
  /\ LET loaded == IF page = "reflection" THEN loadTodaysReflection(store)
                   ELSE loadTodaysReflection(NoRecord)
     IN /\ messages' = loaded.messages
        /\ hasStarted' = loaded.hasStarted
        /\ sessionState' = loaded.sessionState
  /\ input' = <<>>
  /\ isLoading' = FALSE
  /\ orphans' = Orphaned(turn)
  /\ turn' = NoTurn
  /\ turnsAccepted' = NotCounted
  /\ UNCHANGED <<turnsAnswered, writeFailures>>
  /\ UNCHANGED <<store, clock>>
  /\ UNCHANGED <<appVars, profiles, today, timeOfDay, archive>>
  /\ ProfileSetupFollows(profile, goalInput)
  /\ WeeklySummariesFollows
  /\ DashboardFollows

\* a reload whose load removes an item it cannot parse
ReloadPageRemovingCorrupt ==
  /\ UNCHANGED <<user, loading, profileCompleted, profileEffect>>
  /\ UNCHANGED <<profiles, summaryStore, today, timeOfDay, archive>>
  /\ viewingReflection' = NoView
  /\ viewingSummary' = NoView
  /\ profile' = DefaultProfile
  /\ goalInput' = <<>>
  /\ summaries' = <<>>
  /\ isGenerating' = FALSE
  /\ generation' = NoTurn
  /\ generationOrphans' = EmptyBag
  /\ streak' = 0
  /\ currentPage' = "reflection"
  /\ LET loaded == loadTodaysReflection(store)
     IN /\ messages' = loaded.messages
        /\ hasStarted' = loaded.hasStarted
        /\ sessionState' = loaded.sessionState
  /\ input' = <<>>
  /\ isLoading' = FALSE
  /\ turn' = NoTurn
  /\ orphans' = EmptyBag
  /\ turnsAccepted' = NotCounted
  /\ store' = IF store = CorruptRecord THEN NoRecord ELSE store
  /\ UNCHANGED <<turnsAnswered, writeFailures>>
  /\ UNCHANGED clock

\* the page is reloaded with the same user signed in: every suspended call
\* is gone, App starts on the reflection page with nothing viewed, and the
\* mount effect of DailyReflection loads the stored record
ReloadPage ==
  /\ UNCHANGED <<user, loading, profileCompleted, profileEffect>>
  /\ UNCHANGED <<profiles, summaryStore, today, timeOfDay, archive>>
  /\ viewingReflection' = NoView
  /\ viewingSummary' = NoView
  /\ profile' = DefaultProfile
  /\ goalInput' = <<>>
  /\ summaries' = <<>>
  /\ isGenerating' = FALSE
  /\ generation' = NoTurn
  /\ generationOrphans' = EmptyBag
  /\ streak' = 0
  /\ currentPage' = "reflection"
  /\ LET loaded == loadTodaysReflection(store)
     IN /\ messages' = loaded.messages
        /\ hasStarted' = loaded.hasStarted
        /\ sessionState' = loaded.sessionState
  /\ input' = <<>>
  /\ isLoading' = FALSE
  /\ turn' = NoTurn
  /\ orphans' = EmptyBag
  /\ turnsAccepted' = NotCounted
  /\ UNCHANGED <<turnsAnswered, writeFailures>>
  /\ UNCHANGED <<store, clock>>

----------------------------------------------------------------------------
(* Actions of App and ProfileSetup *)

\* the callback of blink.auth.onAuthStateChanged (part_000:21-24).  The
\* effect that checks the profile runs after the render this causes
onAuthStateChanged(u, l) ==
  /\ profileEffect = "done"
  /\ <<u, l>> # <<user, loading>>
  /\ user' = u
  /\ loading' = l
  /\ profileEffect' = IF u # user THEN "pending" ELSE "done"
  /\ UNCHANGED <<viewingReflection, viewingSummary, profileCompleted>>
  /\ UNCHANGED <<currentPage, profiles, writeFailures>>
  /\ UNCHANGED <<sessionVars, today, timeOfDay, archive>>
  /\ ProfileSetupFollows(profile, goalInput)
  /\ WeeklySummariesFollows
  /\ DashboardFollows

\* the effect of part_000:29-50, after a render with a new user
checkProfile ==
  /\ profileEffect = "pending"
  /\ profileEffect' = "done"
  /\ profileCompleted' = IF user # NoUser THEN isCompleted(profiles[user])
                         ELSE profileCompleted
  /\ UNCHANGED <<user, loading, viewingReflection, viewingSummary>>
  /\ UNCHANGED <<currentPage, profiles, writeFailures>>
  /\ UNCHANGED <<sessionVars, today, timeOfDay, archive>>
  /\ ProfileSetupFollows(profile, goalInput)
  /\ WeeklySummariesFollows
  /\ DashboardFollows

\* onViewReflection of Dashboard and of WeeklySummaryViewer
handleViewReflection(date) ==
  /\ profileEffect = "done"
  /\ Displayed \in {"dashboard", "summary-viewer"}
  /\ viewingReflection' = date
  /\ UNCHANGED <<user, loading, viewingSummary, profileCompleted,
                 profileEffect>>
  /\ UNCHANGED <<currentPage, profiles, writeFailures>>
  /\ UNCHANGED <<sessionVars, today, timeOfDay, archive>>
  /\ ProfileSetupFollows(profile, goalInput)
  /\ WeeklySummariesFollows
  /\ DashboardFollows

\* onViewSummary of WeeklySummaries
handleViewSummary(summaryId) ==
  /\ profileEffect = "done"
  /\ Displayed = "summaries"
  /\ viewingSummary' = summaryId
  /\ UNCHANGED <<user, loading, viewingReflection, profileCompleted,
                 profileEffect>>
  /\ UNCHANGED <<currentPage, profiles, writeFailures>>
  /\ UNCHANGED <<sessionVars, today, timeOfDay, archive>>
  /\ ProfileSetupFollows(profile, goalInput)
  /\ WeeklySummariesFollows
  /\ DashboardFollows

\* onBack of ReflectionViewer
handleBackToDashboard ==
  /\ profileEffect = "done"
  /\ Displayed = "reflection-viewer"
  /\ viewingReflection' = NoView
  /\ currentPage' = "dashboard"
  /\ UNCHANGED <<user, loading, viewingSummary, profileCompleted,
                 profileEffect>>
  /\ UNCHANGED <<profiles, writeFailures>>
  /\ UNCHANGED <<sessionVars, today, timeOfDay, archive>>
  /\ ProfileSetupFollows(profile, goalInput)
  /\ WeeklySummariesFollows
  /\ DashboardFollows

\* onBack of WeeklySummaryViewer
handleBackToSummaries ==
  /\ profileEffect = "done"
  /\ Displayed = "summary-viewer"
  /\ viewingSummary' = NoView
  /\ currentPage' = "summaries"
  /\ UNCHANGED <<user, loading, viewingReflection, profileCompleted,
                 profileEffect>>
  /\ UNCHANGED <<profiles, writeFailures>>
  /\ UNCHANGED <<sessionVars, today, timeOfDay, archive>>
  /\ ProfileSetupFollows(profile, goalInput)
  /\ WeeklySummariesFollows
  /\ DashboardFollows

\* a handler of ProfileSetup leaves the form as `form` and the goal input
\* as `typed`
SetProfile(form, typed) ==
  /\ profileEffect = "done"
  /\ ProfileSlot(Displayed) # "none"
  /\ profile' = form
  /\ goalInput' = typed
  /\ UNCHANGED <<appVars, currentPage, profiles, writeFailures>>
  /\ UNCHANGED <<sessionVars, summaryVars, calendarVars>>

\* onChange of the company name input
setCompanyName(value) ==
  /\ value # profile.companyName
  /\ SetProfile([profile EXCEPT !.companyName = value], goalInput)

\* onChange of the industry input
setIndustry(value) ==
  /\ value # profile.industry
  /\ SetProfile([profile EXCEPT !.industry = value], goalInput)

\* onValueChange of the stage Select
setStage(value) ==
  /\ value # profile.stage
  /\ SetProfile([profile EXCEPT !.stage = value], goalInput)

\* onChange of the goal input
setGoalInput(value) ==
  /\ value # goalInput
  /\ SetProfile(profile, value)

\* profile.goals.includes(goal)
Includes(goals, goal) == \E i \in 1..Len(goals) : goals[i] = goal

\* goals.filter(goal => goal !== goalToRemove)
RECURSIVE Without(_, _)
Without(goals, goalToRemove) ==
  IF goals = <<>> THEN <<>>
  ELSE IF Head(goals) = goalToRemove THEN Without(Tail(goals), goalToRemove)
  ELSE <<Head(goals)>> \o Without(Tail(goals), goalToRemove)

\* the add button, or Enter in the goal input
addGoal ==
  IF Trim(goalInput) # <<>> /\ ~Includes(profile.goals, Trim(goalInput))
    THEN SetProfile([profile EXCEPT !.goals = Append(@, Trim(goalInput))],
                    <<>>)
    ELSE SetProfile(profile, goalInput)

\* the remove button of a goal
removeGoal(goalToRemove) ==
  /\ Includes(profile.goals, goalToRemove)
  /\ SetProfile([profile EXCEPT !.goals = Without(@, goalToRemove)],
                goalInput)

\* a validation that does not trim the company name
ValidatesUntrimmed(p) ==
  /\ p.companyName # <<>>
  /\ Trim(p.industry) # <<>>
  /\ p.stage # ""
  /\ Len(p.goals) # 0

\* the four checks saveProfile returns on (ProfileSetup.tsx:60-94)
Validates(p) ==
  /\ Trim(p.companyName) # <<>>
  /\ Trim(p.industry) # <<>>
  /\ p.stage # ""
  /\ Len(p.goals) # 0

\* the save button of ProfileSetup; isLoading is true only inside the
\* handler, which never suspends
saveProfile(accepted) ==
  /\ profileEffect = "done"
  /\ ProfileSlot(Displayed) # "none"
  /\ IF ~Validates(profile)
       THEN UNCHANGED vars
       ELSE
         /\ setItem(accepted)
         /\ profiles' = IF accepted
                          THEN [profiles EXCEPT ![user] = ProfileData(profile)]
                          ELSE profiles
         /\ profileCompleted' =
              IF accepted /\ ProfileSlot(Displayed) = "gate" THEN TRUE
              ELSE profileCompleted
         /\ UNCHANGED <<user, loading, viewingReflection, viewingSummary,
                        profileEffect, currentPage>>
         /\ UNCHANGED <<sessionVars, today, timeOfDay, archive>>
         /\ ProfileSetupFollows(profile, goalInput)
         /\ WeeklySummariesFollows
         /\ DashboardFollows

Next ==
  \/ Tick
  \/ \E text \in Inputs : SetInput(text)
  \/ \E accepted \in WriteOutcomes : startReflection(accepted)
  \/ \E accepted \in WriteOutcomes : sendMessage(accepted)
  \/ \E outcome \in CallOutcomes : AnalysisReturns(outcome)
  \/ \E outcome \in CallOutcomes, accepted \in WriteOutcomes :
       QuestionReturns(outcome, accepted)
  \/ \E o \in BagToSet(orphans), outcome \in CallOutcomes :
       OrphanAnalysisReturns(o, outcome)
  \/ \E o \in BagToSet(orphans), outcome \in CallOutcomes,
        accepted \in WriteOutcomes :
       OrphanQuestionReturns(o, outcome, accepted)
  \/ \E page \in Pages : onPageChange(page)
  \/ ReloadPage

Spec == Init /\ [][Next]_vars

\* the application opens on a day for which a record is already stored, and
\* the mount effect has loaded it
InitStored ==
  /\ store \in StoredItems
  /\ LET loaded == loadTodaysReflection(store)
     IN /\ messages = loaded.messages
        /\ hasStarted = loaded.hasStarted
        /\ sessionState = loaded.sessionState
  /\ input = <<>>
  /\ isLoading = FALSE
  /\ currentPage = "reflection"
  /\ clock = InitialClock
  /\ turn = NoTurn
  /\ orphans = EmptyBag
  /\ turnsAccepted = NotCounted
  /\ turnsAnswered = 0
  /\ writeFailures = 0
  /\ InitShell

SpecStored == InitStored /\ [][Next]_vars

\* the same operations when localStorage.setItem may throw
NextStorage ==
  \/ Tick
  \/ \E text \in Inputs : SetInput(text)
  \/ \E accepted \in StorageOutcomes : startReflection(accepted)
  \/ \E accepted \in StorageOutcomes : sendMessage(accepted)
  \/ \E outcome \in CallOutcomes : AnalysisReturns(outcome)
  \/ \E outcome \in CallOutcomes, accepted \in StorageOutcomes :
       QuestionReturns(outcome, accepted)
  \/ \E o \in BagToSet(orphans), outcome \in CallOutcomes :
       OrphanAnalysisReturns(o, outcome)
  \/ \E o \in BagToSet(orphans), outcome \in CallOutcomes,
        accepted \in StorageOutcomes :
       OrphanQuestionReturns(o, outcome, accepted)
  \/ \E page \in Pages : onPageChange(page)
  \/ ReloadPage

SpecStorage == Init /\ [][NextStorage]_vars

----------------------------------------------------------------------------
(* Actions of WeeklySummaries, and the calendar *)

\* the generate buttons, disabled while isGenerating: generateWeeklySummary
\* up to its suspension at generateText
generateWeeklySummary ==
  /\ profileEffect = "done"
  /\ Displayed = "summaries"
  /\ ~isGenerating
  /\ LET weekStartDate == WeekStart(today)
         weekEndDate == WeekEnd(today)
         weekReflections == getWeekReflections(today, timeOfDay)
     IN IF existingSummary(summaries, weekStartDate) \/ weekReflections = {}
          THEN \* a toast, setIsGenerating(false), return
            UNCHANGED vars
          ELSE
            /\ isGenerating' = TRUE
            /\ generation' = Generation(summaries, weekStartDate, weekEndDate,
                                        weekReflections)
            /\ UNCHANGED <<summaries, summaryStore, generationOrphans>>
            /\ UNCHANGED <<sessionVars, currentPage, writeFailures>>
            /\ UNCHANGED <<appVars, profileVars, calendarVars>>

\* generateText of `call` has ended with `outcome`: saveSummaries of
\* [newSummary, ...summaries], or the catch block; then the finally block
AfterGeneration(call, outcome, live, accepted) ==
  /\ IF outcome = "ok"
       THEN LET newSummary == WeeklySummary(call.weekStartDate,
                                            call.weekEndDate)
                updatedSummaries == <<newSummary>> \o call.summaries
            IN /\ setItem(accepted)
               /\ summaryStore' = IF accepted
                                    THEN SummariesData(updatedSummaries)
                                    ELSE summaryStore
               /\ summaries' = IF live /\ accepted THEN updatedSummaries
                               ELSE summaries
       ELSE UNCHANGED <<summaryStore, summaries, writeFailures>>
  /\ isGenerating' = IF live THEN FALSE ELSE isGenerating

\* the generateText call of the mounted WeeklySummaries returns
GenerationReturns(outcome, accepted) ==
  /\ generation.pc = "generate"
  /\ AfterGeneration(generation, outcome, TRUE, accepted)
  /\ generation' = NoTurn
  /\ UNCHANGED <<generationOrphans, sessionVars, currentPage>>
  /\ UNCHANGED <<appVars, profileVars, calendarVars>>

\* the generateText call of an unmounted WeeklySummaries returns
OrphanGenerationReturns(o, outcome, accepted) ==
  /\ BagIn(o, generationOrphans)
  /\ AfterGeneration(o, outcome, FALSE, accepted)
  /\ generationOrphans' = generationOrphans (-) SetToBag({o})
  /\ UNCHANGED <<generation, sessionVars, currentPage>>
  /\ UNCHANGED <<appVars, profileVars, calendarVars>>

\* half a day passes while the reflection page is not open (DailyReflection
\* keeps the date of its mount).  At midnight the item that was today's
\* becomes the item of another day
HalfDayPasses ==
  /\ currentPage # "reflection"
  /\ IF timeOfDay + 1 < HalfDaysPerDay
       THEN /\ timeOfDay' = timeOfDay + 1
            /\ UNCHANGED <<today, archive, store>>
       ELSE /\ today < MaxDay
            /\ today' = today + 1
            /\ timeOfDay' = 0
            /\ archive' =
                 archive \cup
                   (IF store.kind = "json" /\ "messages" \in DOMAIN store
                      THEN {Record(today, Len(store.messages))} ELSE {})
            /\ store' = NoRecord
  /\ UNCHANGED <<messages, input, isLoading, hasStarted, sessionState, clock,
                 turn, orphans, turnsAccepted, turnsAnswered>>
  /\ UNCHANGED <<currentPage, writeFailures, streak>>
  /\ UNCHANGED <<appVars, profileVars, summaryVars>>

\* the reflections of other days that may be stored when the summaries are
\* opened: the Sunday of this week, yesterday, the same day of last week,
\* and a day whose record has no messages
InitialArchive ==
  { Record(d, 3) : d \in {WeekStart(FirstDay), FirstDay - 1, FirstDay - 7}
                          \ {FirstDay} }
    \cup { Record(FirstDay - 2, 0) }

\* the summaries that may be stored: none, an item that is not JSON, the
\* summary of the first week
InitialSummaries ==
  { NoRecord, CorruptRecord, SummariesData(<<WeeklySummary(0, DaysToWeekEnd)>>) }

\* the pages of a user who reflects and reads summaries
SummaryPages == {"reflection", "summaries"}

\* the application is open on a day with or without a reflection, with
\* reflections of other days and summaries of other weeks in storage
InitSummaries ==
  /\ store \in {NoRecord,
                 ReflectionData(<<WelcomeMessage>>,
                                NewSessionState(InitialClock))}
  /\ LET loaded == loadTodaysReflection(store)
     IN /\ messages = loaded.messages
        /\ hasStarted = loaded.hasStarted
        /\ sessionState = loaded.sessionState
  /\ input = <<>>
  /\ isLoading = FALSE
  /\ currentPage = "reflection"
  /\ clock = InitialClock
  /\ turn = NoTurn
  /\ orphans = EmptyBag
  /\ turnsAccepted = NotCounted
  /\ turnsAnswered = 0
  /\ writeFailures = 0
  /\ user = "u1"
  /\ loading = FALSE
  /\ viewingReflection = NoView
  /\ viewingSummary = NoView
  /\ profileCompleted = TRUE
  /\ profileEffect = "done"
  /\ profiles = [u \in Users |-> IF u = "u1" THEN ProfileData(CompleteProfile)
                                 ELSE NoRecord]
  /\ profile = DefaultProfile
  /\ goalInput = <<>>
  /\ summaries = <<>>
  /\ isGenerating = FALSE
  /\ summaryStore \in InitialSummaries
  /\ generation = NoTurn
  /\ generationOrphans = EmptyBag
  /\ today = FirstDay
  /\ timeOfDay = 0
  /\ archive \in SUBSET InitialArchive
  /\ streak = 0

\* generating summaries while days pass and pages are opened and left
NextSummaries ==
  \/ \E page \in SummaryPages : onPageChange(page)
  \/ generateWeeklySummary
  \/ \E outcome \in CallOutcomes, accepted \in StorageOutcomes :
       GenerationReturns(outcome, accepted)
  \/ \E o \in BagToSet(generationOrphans), outcome \in CallOutcomes,
        accepted \in StorageOutcomes :
       OrphanGenerationReturns(o, outcome, accepted)
  \/ \E summaryId \in SummaryIds : handleViewSummary(summaryId)
  \/ handleBackToSummaries
  \/ HalfDayPasses

SpecSummaries == InitSummaries /\ [][NextSummaries]_vars

\* longest run of consecutive days before today with a stored reflection
MaxRun == 32

\* how far back the run may be interrupted
MaxHole == 3

\* reflections of the `run` days before the first day, each with messages,
\* except the day `hole` days back (if any), which has no record or, when
\* `kept`, a record without messages
ArchiveOf(run, hole, kept) ==
  { Record(FirstDay - i, 2) : i \in (1..run) \ {hole} }
    \cup (IF hole \in 1..run /\ kept THEN {Record(FirstDay - hole, 0)}
          ELSE {})

\* the application is open on a day with or without a reflection, after a
\* run of days with reflections
InitDashboard ==
  /\ store \in {NoRecord,
                 ReflectionData(<<WelcomeMessage>>,
                                NewSessionState(InitialClock))}
  /\ LET loaded == loadTodaysReflection(store)
     IN /\ messages = loaded.messages
        /\ hasStarted = loaded.hasStarted
        /\ sessionState = loaded.sessionState
  /\ input = <<>>
  /\ isLoading = FALSE
  /\ currentPage = "reflection"
  /\ clock = InitialClock
  /\ turn = NoTurn
  /\ orphans = EmptyBag
  /\ turnsAccepted = NotCounted
  /\ turnsAnswered = 0
  /\ writeFailures = 0
  /\ user = "u1"
  /\ loading = FALSE
  /\ viewingReflection = NoView
  /\ viewingSummary = NoView
  /\ profileCompleted = TRUE
  /\ profileEffect = "done"
  /\ profiles = [u \in Users |-> IF u = "u1" THEN ProfileData(CompleteProfile)
                                 ELSE NoRecord]
  /\ profile = DefaultProfile
  /\ goalInput = <<>>
  /\ summaries = <<>>
  /\ isGenerating = FALSE
  /\ summaryStore = NoRecord
  /\ generation = NoTurn
  /\ generationOrphans = EmptyBag
  /\ today = FirstDay
  /\ timeOfDay = 0
  /\ \E run \in 0..MaxRun, hole \in 0..MaxHole, kept \in BOOLEAN :
       archive = ArchiveOf(run, hole, kept)
  /\ streak = 0

\* opening and leaving the Dashboard while days pass
NextDashboard ==
  \/ \E page \in Pages : onPageChange(page)
  \/ \E date \in ViewDates : handleViewReflection(date)
  \/ handleBackToDashboard
  \/ HalfDayPasses

SpecDashboard == InitDashboard /\ [][NextDashboard]_vars

\* the profiles that may be stored when the application is opened: none or
\* a complete one for the first user; none, an item that is not JSON, or
\* one without a stage for the second
InitialProfiles ==
  { [u \in Users |-> IF u = "u1" THEN first ELSE second] :
      first \in {NoRecord, ProfileData(CompleteProfile)},
      second \in {NoRecord, CorruptRecord,
                  ProfileData([CompleteProfile EXCEPT !.stage = ""])} }

\* the application is opened: nobody is signed in yet, blink.auth is loading
InitApp ==
  /\ messages = <<>>
  /\ input = <<>>
  /\ isLoading = FALSE
  /\ hasStarted = FALSE
  /\ sessionState = DefaultSessionState
  /\ currentPage = "reflection"
  /\ store = NoRecord
  /\ clock = InitialClock
  /\ turn = NoTurn
  /\ orphans = EmptyBag
  /\ turnsAccepted = NotCounted
  /\ turnsAnswered = 0
  /\ writeFailures = 0
  /\ user = NoUser
  /\ loading = TRUE
  /\ viewingReflection = NoView
  /\ viewingSummary = NoView
  /\ profileCompleted = FALSE
  /\ profileEffect = "done"
  /\ profiles \in InitialProfiles
  /\ profile = DefaultProfile
  /\ goalInput = <<>>
  /\ summaries = <<>>
  /\ isGenerating = FALSE
  /\ summaryStore = NoRecord
  /\ generation = NoTurn
  /\ generationOrphans = EmptyBag
  /\ today = FirstDay
  /\ timeOfDay = 0
  /\ archive = {}
  /\ streak = 0

\* signing in and out, the profile gate, navigation and the viewers
NextApp ==
  \/ \E u \in Users \cup {NoUser}, l \in BOOLEAN : onAuthStateChanged(u, l)
  \/ checkProfile
  \/ \E page \in AppPages : onPageChange(page)
  \/ \E date \in ViewDates : handleViewReflection(date)
  \/ \E summaryId \in SummaryIds : handleViewSummary(summaryId)
  \/ handleBackToDashboard
  \/ handleBackToSummaries
  \/ \E value \in Names : setCompanyName(value)
  \/ \E value \in Names : setIndustry(value)
  \/ \E value \in Stages : setStage(value)
  \/ \E value \in GoalInputs : setGoalInput(value)
  \/ addGoal
  \/ \E goal \in {Trim(value) : value \in GoalInputs} : removeGoal(goal)
  \/ \E accepted \in StorageOutcomes : saveProfile(accepted)

SpecApp == InitApp /\ [][NextApp]_vars

----------------------------------------------------------------------------
(* Vocabulary of the properties *)

\* the text is empty or whitespace only
IsBlank(text) == \A i \in 1..Len(text) : text[i] = " "

LastOf(seq) == seq[Len(seq)]

\* sendMessage is called in a state where its guard lets the turn through
TurnIsAccepted ==
  /\ Mounted /\ hasStarted
  /\ ~IsBlank(input) /\ ~isLoading /\ ~sessionState.isComplete

StoredComplete == store.kind = "json" /\ store.sessionState.isComplete

\* the component stays mounted over the step
StaysMounted == Mounted /\ Mounted'

\* the messages of `transcript` written by `role`
CountOf(transcript, role) ==
  Cardinality({i \in 1..Len(transcript) : transcript[i].role = role})

\* questionCount user messages and questionCount + 1 assistant messages
CountsFollowUps(transcript, session) ==
  /\ CountOf(transcript, "user") = session.questionCount
  /\ CountOf(transcript, "assistant") = session.questionCount + 1

\* the fields of a session state that no turn is to change
FrameOf(session) ==
  [ startTime |-> session.startTime, maxQuestions |-> session.maxQuestions,
    topics |-> session.topics, topicCoverage |-> session.topicCoverage,
    currentFocus |-> session.currentFocus ]

\* the record of a session that has started
HasSession(item) ==
  /\ item.kind = "json"
  /\ "messages" \in DOMAIN item
  /\ Len(item.messages) >= 1

\* sendMessage calls that await the Language Generator
ActiveHandlers ==
  BagCardinality(orphans) + (IF turn.pc = "idle" THEN 0 ELSE 1)

----------------------------------------------------------------------------
(* C1: questionCount never exceeds maxQuestions (5): not in the component's
   state, not in the persisted record, not in the working copy of a turn
   that awaits the generator; so it is <= 5 when isComplete becomes true. *)
C1_QuestionCountWithinMax ==
  /\ sessionState.maxQuestions = 5
  /\ sessionState.questionCount <= 5
  /\ store.kind = "json" =>
       /\ store.sessionState.maxQuestions = 5
       /\ store.sessionState.questionCount <= 5
  /\ turn.pc # "idle" => turn.session.questionCount <= 5
  /\ \A o \in BagToSet(orphans) : o.session.questionCount <= 5

\* a session that completed on its fifth question
C1_Witness ==
  /\ Mounted /\ hasStarted
  /\ sessionState.isComplete
  /\ sessionState.questionCount = 5
  /\ StoredComplete /\ store.sessionState.questionCount = 5

(* C2: once isComplete is true it never reverts to false, in the persisted
   record and in the state of the mounted component, whatever operations
   follow. *)
C2_IsCompleteNeverReverts ==
  [][ /\ StoredComplete => StoredComplete'
      /\ (StaysMounted /\ sessionState.isComplete) => sessionState'.isComplete
    ]_vars

(* C3: when a turn is accepted at least 20 minutes after startTime, that
   turn appends the user's message and the fixed closing message and sets
   isComplete, whatever questionCount is, and calls no generator. *)
C3_TimeLimitForcesClosing ==
  [][ \A accepted \in WriteOutcomes :
        ( /\ sendMessage(accepted)
          /\ TurnIsAccepted
          /\ clock - sessionState.startTime >= 20 )
        => /\ messages' = messages \o << Message("user", <<"a">>),
                                         Message("assistant", "closing") >>
           /\ sessionState'.isComplete
           /\ UNCHANGED <<turn, orphans>>
    ]_vars

\* a session closed by the clock before its fifth question
C3_Witness ==
  /\ Mounted /\ hasStarted /\ ~isLoading
  /\ clock - sessionState.startTime >= 20
  /\ sessionState.isComplete
  /\ sessionState.questionCount < 5
  /\ LastOf(messages) = Message("assistant", "closing")

(* C4: a turn sets isComplete exactly when the assistant message it appends
   is the fixed closing message: every transcript a turn leaves, in the
   component between turns and in the persisted record, is complete if and
   only if it ends with the closing message. *)
C4_CompleteIffClosingMessage ==
  /\ (Mounted /\ hasStarted /\ ~isLoading) =>
       (sessionState.isComplete <=> LastOf(messages).content = "closing")
  /\ store.kind = "json" =>
       (store.sessionState.isComplete
          <=> LastOf(store.messages).content = "closing")

(* C5: submitting an empty or whitespace-only text appends no message,
   changes nothing of the session state, starts no generator call and
   writes nothing to the persisted record. *)
C5_BlankTurnIsNoOp ==
  [][ \A accepted \in WriteOutcomes :
        (sendMessage(accepted) /\ IsBlank(input))
        => UNCHANGED <<messages, sessionState, hasStarted, isLoading,
                       turn, orphans, store>>
    ]_vars

\* whitespace is all the textarea of a running session holds: the state a
\* submit leaves as it found it
C5_Witness ==
  /\ Mounted /\ hasStarted /\ ~isLoading /\ ~sessionState.isComplete
  /\ input = <<" ">>
  /\ Len(messages) >= 3

(* C6: Complete is terminal: once isComplete is true no operation changes
   the messages or the sessionState of that session, in the mounted
   component or in the persisted record. *)
C6_CompleteIsTerminal ==
  [][ /\ StoredComplete => store' = store
      /\ (StaysMounted /\ sessionState.isComplete) =>
           (messages' = messages /\ sessionState' = sessionState)
    ]_vars

(* C7: in a session started by startSession and driven by its turns alone,
   while fewer than 20 minutes have elapsed: after the k-th accepted turn,
   1 <= k <= 4, the transcript has 1 + 2k messages, questionCount = k and
   isComplete = false; after the fifth, questionCount = 5, the last message
   is the closing message and isComplete = true. *)
C7_TurnByTurn ==
  ( /\ Mounted /\ ~isLoading
    /\ turnsAccepted # NotCounted
    /\ clock - sessionState.startTime < 20 )
  => /\ turnsAccepted <= 5
     /\ sessionState.questionCount = turnsAccepted
     /\ Len(messages) = 1 + 2 * turnsAccepted
     /\ turnsAccepted <= 4 => ~sessionState.isComplete
     /\ turnsAccepted = 5 =>
          /\ sessionState.isComplete
          /\ LastOf(messages) = Message("assistant", "closing")

\* the fifth turn has been answered within the time limit
C7_Witness ==
  /\ Mounted /\ ~isLoading
  /\ turnsAccepted = 5
  /\ clock - sessionState.startTime < 20
  /\ Len(messages) = 11
  /\ sessionState.isComplete

(* C8: startSession leaves exactly one message, the fixed opening message of
   the assistant, with questionCount = 0, maxQuestions = 5, isComplete =
   false, no topics, no topicCoverage and no currentFocus, starts no
   generator call, and persists exactly that record. *)
C8_StartSession ==
  [][ \A accepted \in WriteOutcomes :
        startReflection(accepted)
        => /\ messages' = << [role |-> "assistant", content |-> "welcome"] >>
           /\ sessionState' =
                [ startTime |-> clock, questionCount |-> 0, maxQuestions |-> 5,
                  isComplete |-> FALSE, topics |-> <<>>,
                  topicCoverage |-> <<>>, currentFocus |-> "null" ]
           /\ hasStarted'
           /\ store' = [ kind |-> "json", messages |-> messages',
                         sessionState |-> sessionState' ]
           /\ UNCHANGED <<turn, orphans>>
    ]_vars

\* a session that has just been started
C8_Witness ==
  /\ Mounted /\ hasStarted /\ turnsAccepted = 0
  /\ messages = <<WelcomeMessage>>
  /\ sessionState.startTime = clock
  /\ store = ReflectionData(messages, sessionState)

(* C9: an accepted turn appends exactly one user message and, whether the
   analysis call fails, the question call fails, or both, exactly one
   assistant message; it advances questionCount by 1 and persists the
   updated record. *)
C9_TurnSurvivesGeneratorFailure ==
  [][ /\ \A accepted \in WriteOutcomes :
           ( /\ sendMessage(accepted) /\ TurnIsAccepted
             /\ turn' # turn )
           => /\ messages' = Append(messages, Message("user", <<"a">>))
              /\ turn.pc = "idle" /\ turn'.pc # "idle"
              /\ turn'.messages = messages'
              /\ turn'.session.questionCount = sessionState.questionCount + 1
      /\ AnalysisReturns("error")
           => /\ turn'.pc = "generate"
              /\ turn'.messages = turn.messages
              /\ turn'.session = turn.session
      /\ \A outcome \in CallOutcomes, accepted \in WriteOutcomes :
           QuestionReturns(outcome, accepted)
           => /\ store'.kind = "json"
              /\ Len(store'.messages) = Len(turn.messages) + 1
              /\ SubSeq(store'.messages, 1, Len(turn.messages))
                   = turn.messages
              /\ LastOf(store'.messages).role = "assistant"
              /\ store'.sessionState.questionCount
                   = turn.session.questionCount
              /\ messages' = store'.messages
              /\ sessionState' = store'.sessionState
      /\ \A o \in BagToSet(orphans), outcome \in CallOutcomes,
            accepted \in WriteOutcomes :
           OrphanQuestionReturns(o, outcome, accepted)
           => /\ store'.kind = "json"
              /\ Len(store'.messages) = Len(o.messages) + 1
              /\ SubSeq(store'.messages, 1, Len(o.messages)) = o.messages
              /\ LastOf(store'.messages).role = "assistant"
              /\ store'.sessionState.questionCount = o.session.questionCount
    ]_vars

\* a turn whose analysis call failed has been answered from the fallback
\* of the question call, and the record is persisted
C9_Witness ==
  /\ Mounted /\ hasStarted /\ ~isLoading
  /\ sessionState.questionCount = 1
  /\ Len(messages) = 3
  /\ messages[2].role = "user"
  /\ messages[3] = Message("assistant", ChallengeTemplate)
  /\ store = ReflectionData(messages, sessionState)

(* C10: when the question call fails in a turn that does not end the
   session, the assistant message is the "one specific action ... tomorrow"
   template if exactly one question remains after the increment, and the
   "specific challenge ... move forward" template if more than one
   remains. *)
C10_FallbackTemplates ==
  [][ \A call \in {turn} \cup BagToSet(orphans), accepted \in WriteOutcomes :
        ( \/ call = turn /\ QuestionReturns("error", accepted)
          \/ OrphanQuestionReturns(call, "error", accepted) )
        => LET remaining == 5 - call.session.questionCount
               reply == LastOf(store'.messages)
           IN /\ remaining >= 1
              /\ remaining = 1 =>
                   reply = Message("assistant", "one specific action tomorrow")
              /\ remaining > 1 =>
                   reply = Message("assistant", "specific challenge move forward")
    ]_vars

\* both templates have been used in one session
C10_Witness ==
  /\ Mounted /\ hasStarted /\ ~isLoading
  /\ sessionState.questionCount = 4
  /\ LastOf(messages).content = ActionTemplate
  /\ \E i \in 1..Len(messages) : messages[i].content = ChallengeTemplate

(* C11: a session is complete after at most maxQuestions (5) turns: once
   five turns of today's session have been accepted and answered, isComplete
   is true in the persisted record and, between turns, in the mounted
   component. *)
C11_CompleteWithinMaxTurns ==
  turnsAnswered >= 5 =>
    /\ StoredComplete
    /\ (Mounted /\ hasStarted /\ ~isLoading) => sessionState.isComplete

(* C12: after the persisted record is loaded (on mounting the reflection
   page or reloading the application), hasStarted equals messages.length >
   0; a record with zero messages, a record without a messages field and a
   missing record all leave the session not started; and loading leaves the
   persisted record as it was. *)
C12_LoadDerivesHasStarted ==
  [][ (ReloadPage \/ onPageChange("reflection"))
      => /\ hasStarted' = (Len(messages') > 0)
         /\ ( \/ store.kind # "json"
              \/ "messages" \notin DOMAIN store
              \/ ("messages" \in DOMAIN store /\ Len(store.messages) = 0) )
            => (~hasStarted' /\ messages' = <<>>)
         /\ ( /\ store.kind = "json"
              /\ "messages" \in DOMAIN store
              /\ Len(store.messages) > 0 )
            => (hasStarted' /\ messages' = store.messages)
         /\ store' = store
    ]_vars

\* a record with an empty transcript has been loaded: its session state is
\* in the component, and the session is not started
C12_Witness ==
  /\ Mounted /\ ~hasStarted
  /\ store.kind = "json"
  /\ "messages" \in DOMAIN store /\ store.messages = <<>>
  /\ sessionState.startTime = InitialClock
  /\ messages = <<>>

(* C13: at most one turn handler of the session is active at any time, also
   when the user leaves the reflection page and comes back while a turn is
   in flight; a submit made while a turn awaits the Language Generator is
   ignored; and a step that writes the persisted record is a step of that
   one handler. *)
C13_SingleActiveHandler ==
  [][ /\ ActiveHandlers' <= 1
      /\ \A accepted \in WriteOutcomes :
           (sendMessage(accepted) /\ isLoading)
           => UNCHANGED <<messages, sessionState, store, turn, orphans>>
      /\ store' # store => ActiveHandlers <= 1
    ]_vars

(* C14: in every persisted record and in the component between turns,
   questionCount is the number of assistant follow-ups after the opening
   message: the transcript holds questionCount user messages and
   questionCount + 1 assistant messages; and questionCount never decreases
   within the session, in the record or in the mounted component. *)
C14_QuestionCountCountsFollowUps ==
  [][ /\ store'.kind = "json" =>
           CountsFollowUps(store'.messages, store'.sessionState)
      /\ (Mounted' /\ hasStarted' /\ ~isLoading') =>
           CountsFollowUps(messages', sessionState')
      /\ (store.kind = "json" /\ store'.kind = "json") =>
           store'.sessionState.questionCount
             >= store.sessionState.questionCount
      /\ (StaysMounted /\ hasStarted /\ hasStarted') =>
           sessionState'.questionCount >= sessionState.questionCount
    ]_vars

(* C15: no partial turn is persisted: every persisted transcript is
   non-empty and ends with an assistant message; the record changes only in
   the step that ends startSession or ends a turn, after the assistant
   message is appended; and a turn that is interrupted (reload, leaving the
   page) or still awaits the generator leaves the record as it was. *)
C15_NoPartialTurnPersisted ==
  [][ /\ store'.kind = "json" =>
           /\ Len(store'.messages) > 0
           /\ LastOf(store'.messages).role = "assistant"
      /\ store' # store =>
           \/ \E accepted \in WriteOutcomes : startReflection(accepted)
           \/ /\ \E accepted \in WriteOutcomes : sendMessage(accepted)
              /\ store'.messages =
                   messages \o << Message("user", Trim(input)),
                                  Message("assistant", "closing") >>
           \/ /\ \E outcome \in CallOutcomes, accepted \in WriteOutcomes :
                   QuestionReturns(outcome, accepted)
              /\ SubSeq(store'.messages, 1, Len(store'.messages) - 1)
                   = turn.messages
           \/ \E o \in BagToSet(orphans) :
                /\ \E outcome \in CallOutcomes, accepted \in WriteOutcomes :
                     OrphanQuestionReturns(o, outcome, accepted)
                /\ SubSeq(store'.messages, 1, Len(store'.messages) - 1)
                     = o.messages
      /\ (ReloadPage \/ \E page \in Pages : onPageChange(page)) =>
           store' = store
    ]_vars

\* a turn awaits the generator: the component holds the user's message, the
\* record still ends with the assistant message before it
C15_Witness ==
  /\ Mounted /\ isLoading /\ turn.pc = "generate"
  /\ store.kind = "json"
  /\ messages = Append(store.messages, Message("user", <<"a">>))
  /\ LastOf(store.messages).role = "assistant"
  /\ Len(store.messages) >= 3

(* C16: once a record with at least one message exists for today,
   startSession cannot run again: the record keeps its startTime and is
   never replaced by a fresh session, and the mounted component of a started
   session keeps its startTime. *)
C16_StartOnlyFromNotStarted ==
  [][ /\ HasSession(store) =>
           /\ \A accepted \in StorageOutcomes : ~startReflection(accepted)
           /\ HasSession(store')
           /\ store'.sessionState.startTime = store.sessionState.startTime
      /\ (StaysMounted /\ hasStarted /\ hasStarted') =>
           sessionState'.startTime = sessionState.startTime
    ]_vars

(* C17: an accepted turn whose end condition is false issues exactly one
   coverage-analysis call, and its single question call is issued only when
   the analysis call has returned or failed; an accepted turn whose end
   condition is true issues no Language Generator call. *)
C17_AnalysisThenQuestion ==
  [][ /\ \A accepted \in WriteOutcomes :
           (sendMessage(accepted) /\ TurnIsAccepted)
           => LET endCondition ==
                    \/ sessionState.questionCount + 1 >= 5
                    \/ clock - sessionState.startTime >= 20
              IN /\ turn.pc = "idle"
                 /\ endCondition => (turn'.pc = "idle" /\ orphans' = orphans)
                 /\ ~endCondition => turn'.pc = "analyze"
      /\ (turn.pc # "analyze" /\ turn'.pc = "analyze")
           => \E accepted \in WriteOutcomes : sendMessage(accepted)
      /\ (turn.pc # "generate" /\ turn'.pc = "generate")
           => /\ turn.pc = "analyze"
              /\ \E outcome \in CallOutcomes : AnalysisReturns(outcome)
      /\ \A outcome \in CallOutcomes : AnalysisReturns(outcome)
           => turn'.pc = "generate"
      /\ \A outcome \in CallOutcomes, accepted \in WriteOutcomes :
           QuestionReturns(outcome, accepted) => turn'.pc = "idle"
      /\ \A o \in BagToSet(orphans), outcome \in CallOutcomes :
           OrphanAnalysisReturns(o, outcome)
           => /\ o.pc = "analyze"
              /\ BagCardinality(orphans') = BagCardinality(orphans)
              /\ \E next \in BagToSet(orphans') :
                   /\ next.pc = "generate"
                   /\ next.messages = o.messages
      /\ \A o \in BagToSet(orphans), outcome \in CallOutcomes,
            accepted \in WriteOutcomes :
           OrphanQuestionReturns(o, outcome, accepted)
           => /\ o.pc = "generate"
              /\ BagCardinality(orphans') = BagCardinality(orphans) - 1
    ]_vars

\* the analysis call of a turn has failed and its question call is awaited
C17_Witness ==
  /\ Mounted /\ isLoading
  /\ turn.pc = "generate"
  /\ turn.analysis = DefaultAnalysis
  /\ turn.session.questionCount = 2

(* C18: a turn changes only questionCount and isComplete of the session
   state: startTime, maxQuestions (5), topics, topicCoverage and
   currentFocus keep the values startSession set, in the mounted component
   and in the persisted record, and the record and the session state never
   get a field for the turn's TopicAnalysis. *)
C18_TurnFrame ==
  [][ /\ (StaysMounted /\ hasStarted) =>
           /\ FrameOf(sessionState') = FrameOf(sessionState)
           /\ DOMAIN sessionState' = DOMAIN DefaultSessionState
      /\ (store.kind = "json" /\ store'.kind = "json") =>
           FrameOf(store'.sessionState) = FrameOf(store.sessionState)
      /\ store'.kind = "json" =>
           /\ DOMAIN store' = {"kind", "messages", "sessionState"}
           /\ DOMAIN store'.sessionState = DOMAIN DefaultSessionState
           /\ FrameOf(store'.sessionState)
                = [ startTime |-> InitialClock, maxQuestions |-> 5,
                    topics |-> <<>>, topicCoverage |-> <<>>,
                    currentFocus |-> "null" ]
    ]_vars

\* a turn whose analysis named a topic has been answered and persisted, and
\* the session state holds no topic
C18_Witness ==
  /\ Mounted /\ hasStarted /\ ~isLoading
  /\ sessionState.questionCount = 2
  /\ LastOf(messages).content = "generated"
  /\ store = ReflectionData(messages, sessionState)
  /\ sessionState.topics = <<>>
  /\ sessionState.currentFocus = "null"

(* C19: when localStorage.setItem throws in startSession or at the end of a
   turn, the component keeps the transcript and the session state that the
   operation produced, the turn ends as a turn (isLoading false, its
   assistant message shown), the record is left as it was with no call left
   to write it again, and the next turn can be submitted. *)
C19_StorageFailureKeepsMemory ==
  [][ /\ startReflection(FALSE)
           => /\ messages' = << Message("assistant", "welcome") >>
              /\ hasStarted' /\ ~isLoading'
              /\ sessionState'.startTime = clock
              /\ sessionState'.questionCount = 0
              /\ store' = store
              /\ ActiveHandlers' = ActiveHandlers
      /\ (sendMessage(FALSE) /\ TurnIsAccepted /\ turn' = turn)
           => /\ messages' = messages \o << Message("user", <<"a">>),
                                            Message("assistant", "closing") >>
              /\ sessionState'.questionCount = sessionState.questionCount + 1
              /\ sessionState'.isComplete
              /\ ~isLoading'
              /\ store' = store
              /\ ActiveHandlers' = ActiveHandlers
      /\ \A outcome \in CallOutcomes :
           QuestionReturns(outcome, FALSE)
           => /\ Len(messages') = Len(turn.messages) + 1
              /\ SubSeq(messages', 1, Len(turn.messages)) = turn.messages
              /\ LastOf(messages').role = "assistant"
              /\ sessionState'.questionCount = turn.session.questionCount
              /\ ~isLoading'
              /\ store' = store
              /\ ActiveHandlers' = ActiveHandlers - 1
      /\ ( /\ writeFailures > 0
           /\ \E accepted \in StorageOutcomes : sendMessage(accepted)
           /\ TurnIsAccepted )
           => Len(messages') > Len(messages)
    ]_vars

\* one write of the session failed; the second turn has since been accepted,
\* answered and persisted with the whole transcript
C19_Witness ==
  /\ writeFailures = 1
  /\ Mounted /\ ~isLoading
  /\ turnsAccepted = 2
  /\ Len(messages) = 5
  /\ store = ReflectionData(messages, sessionState)

(* C20: when generateObject throws, analyzeConversationContext returns no
   topics, specificity 1, shouldMoveToNewTopic false and no suggested topic;
   the turn goes on to generateText with the same transcript and session,
   its prompt tells the generator to continue the current topic, and no
   error message is shown. *)
C20_AnalysisFailureUsesDefault ==
  [][ LET Default == [ topics |-> <<>>, currentTopicSpecificity |-> 1,
                       shouldMoveToNewTopic |-> FALSE,
                       suggestedNextTopic |-> "null" ]
          Proceeds(before, after) ==
            /\ after.pc = "generate"
            /\ after.analysis = Default
            /\ CriticalInstruction(after.analysis) = "CONTINUE CURRENT TOPIC"
            /\ after.messages = before.messages
            /\ after.session = before.session
      IN /\ AnalysisReturns("error")
              => /\ Proceeds(turn, turn')
                 /\ isLoading'
                 /\ UNCHANGED <<messages, sessionState, store>>
         /\ \A o \in BagToSet(orphans) :
              OrphanAnalysisReturns(o, "error")
              => /\ \E after \in BagToSet(orphans') : Proceeds(o, after)
                 /\ UNCHANGED <<messages, sessionState, store>>
    ]_vars

\* the first turn's analysis has failed and its question is being generated
C20_Witness ==
  /\ Mounted /\ isLoading
  /\ turn.pc = "generate"
  /\ turn.session.questionCount = 1
  /\ turn.analysis.currentTopicSpecificity = 1
  /\ CriticalInstruction(turn.analysis) = "CONTINUE CURRENT TOPIC"

(* C21: a transcript that is not empty, in the component as in the stored
   record, begins with the assistant's welcome message; startReflection
   and each step of sendMessage leave the transcript they found as a
   prefix of the one they set, adding messages at its end only. *)
C21_OpeningFirstAppendOnly ==
  [][ /\ messages' # <<>> => messages'[1] = Message("assistant", "welcome")
      /\ HasSession(store')
           => store'.messages[1] = Message("assistant", "welcome")
      /\ ( \/ startReflection(TRUE)
           \/ sendMessage(TRUE)
           \/ \E outcome \in CallOutcomes : AnalysisReturns(outcome)
           \/ \E outcome \in CallOutcomes : QuestionReturns(outcome, TRUE) )
           => /\ Len(messages) <= Len(messages')
              /\ SubSeq(messages', 1, Len(messages)) = messages
              /\ \A i \in (Len(messages) + 1)..Len(messages') :
                   messages'[i].role =
                     IF i = 1 \/ messages'[i - 1].role = "user"
                       THEN "assistant" ELSE "user"
    ]_vars

\* two turns have been answered: welcome, user, assistant, user, assistant
C21_Witness ==
  /\ Mounted /\ ~isLoading
  /\ Len(messages) = 5
  /\ messages[1] = WelcomeMessage
  /\ messages[4].role = "user" /\ messages[5].role = "assistant"
  /\ HasSession(store) /\ store.messages = messages

(* C22: when the item stored under today's key cannot be parsed, loading it
   (on a reload, or on mounting the reflection page again) leaves the
   component not started, with an empty transcript and the session state
   useState starts with, and leaves the item as it is. *)
C22_CorruptRecordLoadsAsNotStarted ==
  [][ ( /\ store = CorruptRecord
        /\ ReloadPage \/ onPageChange("reflection") )
        => /\ messages' = <<>>
           /\ ~hasStarted'
           /\ ~isLoading'
           /\ sessionState' = DefaultSessionState
           /\ sessionState'.questionCount = 0 /\ ~sessionState'.isComplete
           /\ store' = store
    ]_vars

\* the reflection page shows the start button over an item that is not JSON,
\* some minutes after the application was opened
C22_Witness ==
  /\ store = CorruptRecord
  /\ Mounted /\ ~hasStarted /\ messages = <<>>
  /\ sessionState = DefaultSessionState
  /\ clock > InitialClock

(* C23: whatever the interleaving of sendMessage calls with leaving and
   re-entering the reflection page, every write of today's record keeps
   the messages stored before as a prefix of the messages it stores, and
   stores a questionCount that is not lower than the one stored before. *)
C23_PersistedRecordOnlyGrows ==
  [][ (HasSession(store) /\ store' # store)
        => /\ HasSession(store')
           /\ Len(store.messages) <= Len(store'.messages)
           /\ SubSeq(store'.messages, 1, Len(store.messages)) = store.messages
           /\ store'.sessionState.questionCount
                >= store.sessionState.questionCount
    ]_vars

(* C27: a profile item changes only through saveProfile of the signed-in
   user, and what is written has a company name and an industry that are
   not blank, a stage and at least one goal; a saveProfile whose form
   fails one of these checks changes no item and does not call
   onProfileComplete (profileCompleted stays as it is); one whose form
   passes writes the form and, in the gate, completes the setup. *)
C27_StoredProfileIsComplete ==
  [][ LET Complete(p) ==
            /\ ~IsBlank(p.companyName) /\ ~IsBlank(p.industry)
            /\ p.stage # "" /\ Len(p.goals) > 0
      IN /\ \A u \in Users :
              profiles'[u] # profiles[u]
              => /\ u = user
                 /\ saveProfile(TRUE)
                 /\ profiles'[u].kind = "json"
                 /\ Complete(profiles'[u])
         /\ \A accepted \in StorageOutcomes :
              (saveProfile(accepted) /\ ~Complete(profile))
              => /\ profiles' = profiles
                 /\ profileCompleted' = profileCompleted
         /\ (saveProfile(TRUE) /\ Complete(profile))
              => /\ profiles'[user] = ProfileData(profile)
                 /\ ProfileSlot(Displayed) = "gate" => profileCompleted'
         /\ (profileCompleted' /\ ~profileCompleted /\ ~checkProfile)
              => /\ saveProfile(TRUE)
                 /\ Complete(profile)
    ]_vars

\* the second user, who had no complete profile, has saved one in the gate
\* and is in the main application
C27_Witness ==
  /\ user = "u2"
  /\ profiles["u2"].kind = "json"
  /\ profiles["u2"].stage # ""
  /\ ~IsBlank(profiles["u2"].companyName)
  /\ profileCompleted /\ profileEffect = "done"
  /\ MainApplication

(* C28: whenever Navigation and a page of the main application are
   displayed, a user is signed in and the profile stored for that user
   passes App's completeness check. *)
C28_MainApplicationHasProfile ==
  MainApplication => (user \in Users /\ isCompleted(profiles[user]))

(* C29: onBack of the reflection viewer leaves the Dashboard displayed, and
   onBack of the summary viewer leaves the list of weekly summaries
   displayed. *)
C29_BackLeadsToListPage ==
  [][ /\ handleBackToDashboard => Displayed' = "dashboard"
      /\ handleBackToSummaries => Displayed' = "summaries"
    ]_vars

(* C24: the stored collection of weekly summaries never holds two summaries
   with the same weekStartDate, and a generateWeeklySummary that is invoked
   while the collection already holds a summary of the current week starts
   no generateText call and leaves the collection as it is. *)
C24_OneSummaryPerWeek ==
  [][ /\ summaryStore'.kind = "json"
           => \A i, j \in 1..Len(summaryStore'.summaries) :
                summaryStore'.summaries[i].weekStartDate
                  = summaryStore'.summaries[j].weekStartDate
                => i = j
      /\ ( /\ generateWeeklySummary
           /\ summaryStore.kind = "json"
           /\ existingSummary(summaryStore.summaries, WeekStart(today)) )
           => /\ generation' = NoTurn
              /\ ~isGenerating'
              /\ summaryStore' = summaryStore
    ]_vars

(* C25: generateWeeklySummary starts a generation only when a day of the
   current week (Sunday to Saturday) has a stored reflection with
   messages, and the collection is written only when a generateText call
   has succeeded; it is unchanged when the week has no such reflection or
   the call fails; and isGenerating is false once the operation has ended,
   whatever its outcome. *)
C25_SummaryStoredOnlyOnSuccess ==
  [][ LET WeekHasReflection ==
            \E d \in WeekStart(today)..WeekEnd(today) : d \in ReflectionDates
      IN /\ generateWeeklySummary
              => /\ summaryStore' = summaryStore
                 /\ generation'.pc = "generate" => WeekHasReflection
                 /\ ~WeekHasReflection
                      => (generation' = NoTurn /\ ~isGenerating')
                 /\ generation' = NoTurn => ~isGenerating'
         /\ summaryStore' # summaryStore
              => /\ \/ /\ GenerationReturns("ok", TRUE)
                       /\ generation.weekReflections # {}
                    \/ \E o \in BagToSet(generationOrphans) :
                         /\ OrphanGenerationReturns(o, "ok", TRUE)
                         /\ o.weekReflections # {}
                 /\ summaryStore'.kind = "json"
                 /\ summaryStore'.summaries[1].summaryText = "generated"
         /\ \A outcome \in CallOutcomes, accepted \in StorageOutcomes :
              GenerationReturns(outcome, accepted)
              => /\ ~isGenerating'
                 /\ (outcome = "error" \/ ~accepted)
                      => summaryStore' = summaryStore
    ]_vars

\* the summary of this week has been generated and stored in front of the
\* summary of the first week, and the button is enabled again
C25_Witness ==
  /\ Displayed = "summaries"
  /\ ~isGenerating /\ generation = NoTurn
  /\ summaryStore.kind = "json"
  /\ Len(summaryStore.summaries) = 2
  /\ summaryStore.summaries[1].weekStartDate = WeekStart(today)
  /\ summaries = summaryStore.summaries

(* C26: the streak the Dashboard computes when it loads is 0 when no
   stored reflection with messages is dated today, and otherwise the
   number of consecutive days, today included and counted backwards, that
   each have such a reflection, but not more than 30. *)
C26_StreakCountsConsecutiveDays ==
  [][ (Displayed' = "dashboard" /\ Displayed # "dashboard")
        => LET dates == ReflectionDates
               consecutive ==
                 Cardinality({k \in 0..Cardinality(dates) :
                                \A i \in 0..k : (today - i) \in dates})
           IN streak' = IF today \notin dates THEN 0
                        ELSE IF consecutive > 30 THEN 30
                        ELSE consecutive
    ]_vars

\* the Dashboard shows a streak of 30 over 31 consecutive days of reflections
C26_Witness ==
  /\ Displayed = "dashboard"
  /\ streak = 30
  /\ \A i \in 0..30 : (today - i) \in ReflectionDates


====
